---------------------------- MODULE Spec2Model ----------------------------
(***************************************************************************)
(* A model of apple-jwt: the CLI (src/cli.ts), the configuration manager   *)
(* (src/config.ts), the token generator (src/generator.ts) and the         *)
(* interactive prompts (src/interactive.ts).                               *)
(*                                                                         *)
(* JavaScript values are tagged tuples, so that values of different types  *)
(* can be compared: <<"str", s>> with s a sequence of one-character        *)
(* strings, <<"num", n>>, <<"nan">>, <<"undef">>, <<"bool", b>>.  An       *)
(* object is a function whose DOMAIN is the set of its own keys: a key can *)
(* be present with the value undefined, as in JavaScript.                  *)
(***************************************************************************)
EXTENDS Integers, Sequences, FiniteSets, TLC

(***************************************************************************)
(* JavaScript values                                                       *)
(***************************************************************************)
Str(s) == <<"str", s>>
Num(n) == <<"num", n>>
Bool(b) == <<"bool", b>>
NaN == <<"nan">>
Undefined == <<"undef">>
Null == <<"null">>
\* an object where null can stand as well
Obj(o) == <<"obj", o>>
\* not a JavaScript value: marks a key an input leaves out
Absent == <<"absent">>

IsStr(v) == v[1] = "str"
IsNum(v) == v[1] = "num"
Chars(v) == v[2]

\* ToBoolean: undefined, NaN, 0, "" and false are falsy
Truthy(v) ==
  CASE v[1] = "str" -> Len(v[2]) > 0
    [] v[1] = "num" -> v[2] # 0
    [] v[1] = "bool" -> v[2]
    [] OTHER -> FALSE

\* obj.key: undefined when the key is not an own key
Get(obj, key) == IF key \in DOMAIN obj THEN obj[key] ELSE Undefined

\* { ...a, ...b }: every own key of b, undefined-valued or not, overrides a
Spread(a, b) ==
  [k \in DOMAIN a \cup DOMAIN b |-> IF k \in DOMAIN b THEN b[k] ELSE a[k]]

\* the object literal that has the keys of r whose value is not Absent
Prune(r) == [k \in {x \in DOMAIN r : r[x] # Absent} |-> r[k]]

EmptyObject == [k \in {} |-> Undefined]

(***************************************************************************)
(* Strings: String.prototype.includes / endsWith / startsWith / trim, and  *)
(* parseInt(s, 10)                                                         *)
(***************************************************************************)
Includes(s, c) == \E i \in 1..Len(s) : s[i] = c

EndsWith(s, suffix) ==
  /\ Len(suffix) <= Len(s)
  /\ SubSeq(s, Len(s) - Len(suffix) + 1, Len(s)) = suffix

StartsWith(s, prefix) ==
  /\ Len(prefix) <= Len(s)
  /\ SubSeq(s, 1, Len(prefix)) = prefix

IncludesSeq(s, sub) ==
  \E i \in 0..(Len(s) - Len(sub)) : SubSeq(s, i + 1, i + Len(sub)) = sub

IsSpace(c) == c \in {" ", "\n", "\t"}

RECURSIVE TrimStart(_)
TrimStart(s) ==
  IF s # <<>> /\ IsSpace(Head(s)) THEN TrimStart(Tail(s)) ELSE s

RECURSIVE TrimEnd(_)
TrimEnd(s) ==
  IF s # <<>> /\ IsSpace(s[Len(s)]) THEN TrimEnd(SubSeq(s, 1, Len(s) - 1)) ELSE s

Trim(s) == TrimEnd(TrimStart(s))

Digits == <<"0", "1", "2", "3", "4", "5", "6", "7", "8", "9">>
IsDigit(c) == \E d \in 1..10 : Digits[d] = c
DigitVal(c) == (CHOOSE d \in 1..10 : Digits[d] = c) - 1

\* the value of the longest prefix of digits of s, and its length
RECURSIVE DigitPrefix(_, _, _)
DigitPrefix(s, acc, n) ==
  IF s # <<>> /\ IsDigit(Head(s))
  THEN DigitPrefix(Tail(s), 10 * acc + DigitVal(Head(s)), n + 1)
  ELSE <<acc, n>>

\* parseInt(v, 10): v is converted to a string first (undefined gives
\* "undefined"), leading white space is skipped, an optional sign and the
\* longest run of digits are read; NaN when there is no digit
ParseIntChars(s) ==
  LET t == TrimStart(s)
      neg == t # <<>> /\ Head(t) = "-"
      u == IF t # <<>> /\ Head(t) \in {"-", "+"} THEN Tail(t) ELSE t
      p == DigitPrefix(u, 0, 0)
  IN IF p[2] = 0 THEN NaN ELSE Num(IF neg THEN 0 - p[1] ELSE p[1])

ParseInt(v) == IF IsStr(v) THEN ParseIntChars(Chars(v)) ELSE NaN


(***************************************************************************)
(* Messages.  A message is a sequence of pieces, the concatenation of      *)
(* which is the text: Lit(t) is a piece of literal text of a template,     *)
(* Str(s) an interpolated string.  An error is its name and its message.   *)
(***************************************************************************)
Lit(t) == <<"lit", t>>
Error(msg) == [name |-> "Error", message |-> msg]
TypeError(msg) == [name |-> "TypeError", message |-> msg]
\* `${error}`: Error.prototype.toString
ErrorToString(e) == <<Lit(e.name), Lit(": ")>> \o e.message

\* what a call gives: a value, or an error thrown
Return(v) == <<"return", v>>
Throw(e) == <<"throw", e>>
Returned(r) == r[1] = "return"
Threw(r) == r[1] = "throw"

(***************************************************************************)
(* Bounds of the model and the inputs drawn in Init                        *)
(***************************************************************************)
\* Date.now() is drawn from the multiples of 500 ms up to MaxTicks * 500
MaxTicks == 3
NowMsValues == {k * 500 : k \in 0..MaxTicks}

\* strings, one character per element
sEmpty == <<>>
sK1 == <<"K", "1">>
sT1 == <<"T", "1">>
sEK == <<"E", "K">>
sET == <<"E", "T">>
sKeyId10 == <<"A", "B", "C", "1", "2", "3", "D", "E", "F", "4">>
sTeamId10 == <<"X", "Y", "Z", "7", "8", "9", "G", "H", "I", "0">>
sBlank == <<" ", " ">>
sShort == <<"A", "B", "C">>
sES256 == <<"E", "S", "2", "5", "6">>
sES384 == <<"E", "S", "3", "8", "4">>
sES512 == <<"E", "S", "5", "1", "2">>
sHS256 == <<"H", "S", "2", "5", "6">>
sKeyPem == <<".", "/", "k", ".", "p", "e", "m">>
sKeyP8 == <<"k", ".", "p", "8">>
sKeyWin == <<"d", "\\", "k">>
sEnvPem == <<".", "/", "e", ".", "p", "e", "m">>
sBegin == <<"-", "-", "-", "-", "-", "B", "E", "G", "I", "N">>
sEnd == <<"-", "-", "-", "-", "-", "E", "N", "D">>
sInlineKey == sBegin \o <<"\n", "M", "I", "G", "\n">> \o sEnd
sInlineKeySlash == sBegin \o <<"\n", "M", "/", "G", "\n">> \o sEnd
sRawKey == <<"R", "A", "W">>
sFileKey == sBegin \o <<"\n", "F", "I", "L", "\n">> \o sEnd
sOut == <<"o", "u", "t">>
s30 == <<"3", "0">>
s99 == <<"9", "9">>
s0 == <<"0">>
s400 == <<"4", "0", "0">>
sAbc == <<"a", "b", "c">>
s12abc == <<"1", "2", "a", "b", "c">>
sNeg5 == <<"-", "5">>

(***************************************************************************)
(* The file system and node's path.resolve                                 *)
(***************************************************************************)
Cwd == <<"/", "w">>

RECURSIVE StripDotSlash(_)
StripDotSlash(p) ==
  IF StartsWith(p, <<".", "/">>) THEN StripDotSlash(SubSeq(p, 3, Len(p))) ELSE p

\* path.resolve(process.cwd(), p) for the paths of the model: an absolute
\* path is kept, a relative one is appended to the working directory without
\* its leading "./"
Resolve(p) ==
  IF StartsWith(p, <<"/">>) THEN p ELSE Cwd \o <<"/">> \o StripDotSlash(p)

\* the key files a run can refer to, by absolute path
KeyFiles == {Resolve(sKeyPem), Resolve(sEnvPem)}
FileStates == {"missing", "readable", "unreadable"}

\* existsSync(p) in the file system f
ExistsSync(f, p) == Resolve(p) \in DOMAIN f /\ f[Resolve(p)] # "missing"
\* the content of every key file of the model
FileContent(p) == sFileKey
\* readFileSync(p, 'utf8'): the content, or the I/O error
ReadFileSync(f, p) ==
  IF Resolve(p) \in DOMAIN f /\ f[Resolve(p)] = "readable"
  THEN Return(Str(FileContent(p)))
  ELSE Throw(Error(<<Lit("Permission denied")>>))

(***************************************************************************)
(* config.ts: ConfigManager                                                *)
(***************************************************************************)
DefaultExpiresIn == 180
Defaults == [expiresIn |-> Num(DefaultExpiresIn), algorithm |-> Str(sES256)]

\* resolveConfig(cliOptions, configFile) in the file system f; configFile is
\* Obj(o) or Null ({...null} spreads nothing, null?.privateKeyPath is undefined)
ResolveConfigAllOrNothing(cliOptions, configFile, f) ==
  Return(Spread(IF DOMAIN cliOptions = {} THEN Defaults ELSE cliOptions,
                [privateKey |-> Get(cliOptions, "privateKey")]))
ResolveConfig(cliOptions, configFile, f) ==
  LET file == IF configFile = Null THEN EmptyObject ELSE configFile[2]
      cliKey == Get(cliOptions, "privateKey")
      fromFile == ~Truthy(cliKey) /\ Truthy(Get(file, "privateKeyPath"))
      keyPath == Resolve(Chars(file["privateKeyPath"]))
      merged == Spread(Spread(Defaults, file), cliOptions)
  IN IF fromFile /\ ~ExistsSync(f, keyPath)
     THEN Throw(Error(<<Lit("Private key file not found: "),
                        file["privateKeyPath"]>>))
     ELSE Return(Spread(merged,
                 [privateKey |-> IF fromFile THEN Str(keyPath) ELSE cliKey]))

\* validateEnvironmentVariables() with process.env = e in the file system f
ValidateEnvironmentVariablesPathFirst(e, f) ==
  LET keyPath == Resolve(Chars(e["APPLE_PRIVATE_KEY_PATH"]))
  IN Prune([
       privateKey |->
         IF Truthy(Get(e, "APPLE_PRIVATE_KEY_PATH")) /\ ExistsSync(f, keyPath)
         THEN Str(keyPath)
         ELSE IF Truthy(Get(e, "APPLE_PRIVATE_KEY")) THEN e["APPLE_PRIVATE_KEY"]
              ELSE Absent])
ValidateEnvironmentVariables(e, f) ==
  LET keyPath == Resolve(Chars(e["APPLE_PRIVATE_KEY_PATH"]))
      expiresIn == ParseInt(e["APPLE_JWT_EXPIRES_IN"])
  IN Prune([
       keyId |-> IF Truthy(Get(e, "APPLE_KEY_ID"))
                 THEN e["APPLE_KEY_ID"] ELSE Absent,
       teamId |-> IF Truthy(Get(e, "APPLE_TEAM_ID"))
                  THEN e["APPLE_TEAM_ID"] ELSE Absent,
       privateKey |->
         IF Truthy(Get(e, "APPLE_PRIVATE_KEY")) THEN e["APPLE_PRIVATE_KEY"]
         ELSE IF Truthy(Get(e, "APPLE_PRIVATE_KEY_PATH")) /\ ExistsSync(f, keyPath)
              THEN Str(keyPath)
              ELSE Absent,
       expiresIn |->
         IF Truthy(Get(e, "APPLE_JWT_EXPIRES_IN")) /\ expiresIn # NaN
         THEN expiresIn ELSE Absent,
       algorithm |-> IF Truthy(Get(e, "APPLE_JWT_ALGORITHM"))
                     THEN e["APPLE_JWT_ALGORITHM"] ELSE Absent])

\* buildFinalConfig() / loadConfig()
BuildFinalConfig(e, f) ==
  ResolveConfig(ValidateEnvironmentVariables(e, f), Null, f)

(***************************************************************************)
(* generator.ts: AppleJWTGenerator                                         *)
(***************************************************************************)
MaxExpiresIn == 365
SecondsPerDay == 24 * 60 * 60

\* a < n and a > n of JavaScript for a number, NaN or undefined a: every
\* comparison with NaN or undefined (converted to NaN) is false
Leq(a, n) == IsNum(a) /\ a[2] <= n
Gt(a, n) == IsNum(a) /\ a[2] > n
\* a * n and a + b: NaN unless both are numbers
Times(a, n) == IF IsNum(a) THEN Num(a[2] * n) ELSE NaN
Plus(a, b) == IF IsNum(a) /\ IsNum(b) THEN Num(a[2] + b[2]) ELSE NaN

\* constructor(config): this.config
Constructor(config) == Spread(Defaults, config)

\* isFilePath(input)
IsFilePath(input) ==
  \/ Includes(input, "/")
  \/ Includes(input, "\\")
  \/ EndsWith(input, <<".", "p", "e", "m">>)
  \/ EndsWith(input, <<".", "p", "8">>)

\* createPayload() when Date.now() gives nowMs
CreatePayload(cfg, nowMs) ==
  LET now == nowMs \div 1000
      expiration == Plus(Num(now), Times(Get(cfg, "expiresIn"), SecondsPerDay))
  IN [iss |-> Get(cfg, "teamId"), iat |-> Num(now), exp |-> expiration]

\* createHeader()
CreateHeader(cfg) == [alg |-> Get(cfg, "algorithm"), kid |-> Get(cfg, "keyId")]

\* static validateConfig(config): the error thrown, or a return
ValidateConfigRangeFirst(config) ==
  IF /\ Get(config, "expiresIn") # Undefined
     /\ (Leq(Get(config, "expiresIn"), 0)
         \/ Gt(Get(config, "expiresIn"), MaxExpiresIn))
  THEN Throw(Error(<<Lit("Expiration days must be between 1 and 365")>>))
  ELSE IF ~Truthy(Get(config, "keyId"))
  THEN Throw(Error(<<Lit("Apple Key ID is required")>>))
  ELSE IF ~Truthy(Get(config, "teamId"))
  THEN Throw(Error(<<Lit("Apple Team ID is required")>>))
  ELSE IF ~Truthy(Get(config, "privateKey"))
  THEN Throw(Error(<<Lit("Private key is required")>>))
  ELSE Return(Undefined)
ValidateConfig(config) ==
  IF ~Truthy(Get(config, "keyId"))
  THEN Throw(Error(<<Lit("Apple Key ID is required")>>))
  ELSE IF ~Truthy(Get(config, "teamId"))
  THEN Throw(Error(<<Lit("Apple Team ID is required")>>))
  ELSE IF ~Truthy(Get(config, "privateKey"))
  THEN Throw(Error(<<Lit("Private key is required")>>))
  ELSE IF /\ Get(config, "expiresIn") # Undefined
          /\ (Leq(Get(config, "expiresIn"), 0)
              \/ Gt(Get(config, "expiresIn"), MaxExpiresIn))
  THEN Throw(Error(<<Lit("Expiration days must be between 1 and 365")>>))
  ELSE Return(Undefined)

(***************************************************************************)
(* cli.ts: CLI.parseArguments                                              *)
(***************************************************************************)
fK == <<"-", "k">>
fT == <<"-", "t">>
fP == <<"-", "p">>
fE == <<"-", "e">>
fA == <<"-", "a">>
fO == <<"-", "o">>
fH == <<"-", "h">>
fV == <<"-", "v">>
fX == <<"-", "x">>
fKeyId == <<"-", "-", "k", "e", "y", "-", "i", "d">>
fTeamId == <<"-", "-", "t", "e", "a", "m", "-", "i", "d">>
fPrivateKey ==
  <<"-", "-", "p", "r", "i", "v", "a", "t", "e", "-", "k", "e", "y">>
fExpiresIn == <<"-", "-", "e", "x", "p", "i", "r", "e", "s", "-", "i", "n">>
fAlgorithm == <<"-", "-", "a", "l", "g", "o", "r", "i", "t", "h", "m">>
fOutput == <<"-", "-", "o", "u", "t", "p", "u", "t">>
fHelp == <<"-", "-", "h", "e", "l", "p">>
fVersion == <<"-", "-", "v", "e", "r", "s", "i", "o", "n">>

\* obj[key] = v
Assign(obj, key, v) == Spread(obj, [k \in {key} |-> v])

\* the loop of parseArguments from index i (1-based) with the options set so
\* far: the options, or the unknown option that ends the process
RECURSIVE ParseArguments(_, _, _)
ParseArguments(a, i, opts) ==
  IF i > Len(a) THEN [unknown |-> Undefined, options |-> opts]
  ELSE
    LET arg == a[i]
        nextArg == IF i + 1 <= Len(a) THEN Str(a[i + 1]) ELSE Undefined
    IN CASE arg \in {fKeyId, fK} ->
              ParseArguments(a, i + 2, Assign(opts, "keyId", nextArg))
         [] arg \in {fTeamId, fT} ->
              ParseArguments(a, i + 2, Assign(opts, "teamId", nextArg))
         [] arg \in {fPrivateKey, fP} ->
              ParseArguments(a, i + 2, Assign(opts, "privateKey", nextArg))
         [] arg \in {fExpiresIn, fE} ->
              ParseArguments(a, i + 2, Assign(opts, "expiresIn", ParseInt(nextArg)))
         [] arg \in {fAlgorithm, fA} ->
              ParseArguments(a, i + 2, Assign(opts, "algorithm", nextArg))
         [] arg \in {fOutput, fO} ->
              ParseArguments(a, i + 2, Assign(opts, "output", nextArg))
         [] arg \in {fHelp, fH} ->
              ParseArguments(a, i + 1, Assign(opts, "help", Bool(TRUE)))
         [] arg \in {fVersion, fV} ->
              ParseArguments(a, i + 1, Assign(opts, "version", Bool(TRUE)))
         [] OTHER ->
              IF StartsWith(arg, <<"-">>)
              THEN [unknown |-> Str(arg), options |-> opts]
              ELSE ParseArguments(a, i + 1, opts)

\* hasRequiredOptions()
HasRequiredOptionsKeyIdOnly(opts) == Truthy(Get(opts, "keyId"))
HasRequiredOptions(opts) ==
  /\ Truthy(Get(opts, "keyId"))
  /\ Truthy(Get(opts, "teamId"))
  /\ Truthy(Get(opts, "privateKey"))

\* runCommandLine(): finalConfig after Object.assign(finalConfig, envConfig)
FinalConfig(opts, e, f) ==
  Spread(ResolveConfig(opts, Null, f)[2], ValidateEnvironmentVariables(e, f))

(***************************************************************************)
(* interactive.ts: the validators of the prompts                           *)
(***************************************************************************)
MinIdLength == 8

\* promptKeyId / promptTeamId: validate
IdAccepted(input) == Trim(input) # <<>> /\ ~(Len(input) < MinIdLength)

\* promptPrivateKey: validate, in the file system f
PrivateKeyAccepted(input, f) ==
  LET trimmed == Trim(input)
  IN /\ Trim(input) # <<>>
     /\ IF IsFilePath(trimmed)
        THEN ExistsSync(f, trimmed)
        ELSE IncludesSeq(trimmed, sBegin) /\ IncludesSeq(trimmed, sEnd)

\* promptExpiresIn: validate
ExpiresInAccepted(input) ==
  LET num == ParseIntChars(input)
  IN num # NaN /\ ~(Leq(num, 0) \/ Gt(num, MaxExpiresIn))

\* promptOutput: validate of the file path
OutputAccepted(input) == Trim(input) # <<>>

\* collectAllInputs(): the config built from the answers
CollectAllInputs(keyId, teamId, privateKey, expiresInStr, algorithm) ==
  [keyId |-> Str(keyId), teamId |-> Str(teamId), privateKey |-> Str(privateKey),
   expiresIn |-> ParseIntChars(expiresInStr), algorithm |-> Str(algorithm)]

(***************************************************************************)
(* The inputs of a run                                                     *)
(***************************************************************************)
\* expiresIn is drawn from both ends of [1, 365], MaxOver beyond each
MaxOver == 1
ExpiresInNumbers ==
  ((0 - MaxOver)..1) \cup {30} \cup (MaxExpiresIn..(MaxExpiresIn + MaxOver))

NoFiles == [p \in KeyFiles |-> "missing"]
FileSystems == [KeyFiles -> FileStates]

\* the configurations a caller of the library passes
ApiConfigs ==
  { Prune([keyId |-> k, teamId |-> t, privateKey |-> p, expiresIn |-> e,
           algorithm |-> a]) :
      k \in {Absent, Str(sEmpty), Str(sK1)},
      t \in {Absent, Str(sEmpty), Str(sT1)},
      p \in {Absent, Str(sEmpty), Str(sKeyPem), Str(sKeyP8), Str(sKeyWin),
             Str(sInlineKey), Str(sInlineKeySlash)},
      e \in {Absent, Undefined, NaN} \cup {Num(n) : n \in ExpiresInNumbers},
      a \in {Absent, Undefined, Str(sES384), Str(sHS256)} }

\* the file systems that matter to a configuration: only ./k.pem is read
ApiFileSystems(c) ==
  IF Get(c, "privateKey") = Str(sKeyPem)
  THEN {f \in FileSystems : f[Resolve(sEnvPem)] = "missing"}
  ELSE {NoFiles}

\* the fragments and config files a caller of resolveConfig passes
Fragments ==
  { Prune([keyId |-> k, privateKey |-> p, expiresIn |-> e, algorithm |-> a]) :
      k \in {Absent, Str(sK1)},
      p \in {Absent, Undefined, Str(sInlineKey)},
      e \in {Absent, Num(30)},
      a \in {Absent, Undefined, Str(sES384)} }
ConfigFiles ==
  {Null} \cup
  { Obj(Prune([teamId |-> t, privateKeyPath |-> p, expiresIn |-> e])) :
      t \in {Absent, Str(sT1)},
      p \in {Absent, Str(sKeyPem)},
      e \in {Absent, Num(99)} }

\* "flag value", or nothing when the flag is not given
Flag(flag, v) == IF v = Absent THEN <<>> ELSE <<flag, Chars(v)>>

\* command lines that give -k, -t and -p; a trailing -a has no value
CompleteArgLists ==
  { <<fK, sK1, fT, sT1>> \o Flag(fP, p) \o Flag(fE, e) \o Flag(fO, o) \o a :
      p \in {Str(sKeyPem), Str(sInlineKey)},
      e \in {Absent, Str(s30), Str(sAbc)},
      o \in {Absent, Str(sOut)},
      a \in {<<>>, <<fA, sES384>>, <<fA>>} }
  \cup {<<fKeyId, sK1, fTeamId, sT1, fPrivateKey, sInlineKey, fExpiresIn, s400,
          fAlgorithm, sES512, fOutput, sOut>>,
        <<fK, sK1, fT, sT1, fP, sKeyP8, fE, s0>>,
        <<fK, sK1, fT, sT1, fP, sKeyWin, fE, sNeg5>>,
        <<fK, sK1, fT, sT1, fP, sInlineKeySlash>>,
        <<fK, sK1, fT, sT1, fP, sInlineKeySlash, fO, sOut>>,
        <<fK, sK1, fT, sT1, fP, sInlineKey, fA, sHS256>>}
\* the other command lines
OtherArgLists ==
  { <<>>, <<fK, sK1>>, <<fK, sK1, fT, sT1>>, <<fK, sK1, fT, sT1, fP>>,
    <<fP, sInlineKey, fE, s30>>, <<sOut>>,
    <<fH>>, <<fHelp>>, <<fV>>, <<fVersion>>, <<fH, fV>>,
    <<fK, sK1, fT, sT1, fP, sInlineKey, fH>>,
    <<fK, sK1, fT, sT1, fP, sInlineKey, fV>>,
    <<fX>>, <<fK, sK1, fT, sT1, fP, sInlineKey, fX>> }

\* process.env: a variable that is set is a string
Environs ==
  { Prune([APPLE_KEY_ID |-> k, APPLE_TEAM_ID |-> t, APPLE_PRIVATE_KEY |-> p,
           APPLE_PRIVATE_KEY_PATH |-> pp, APPLE_JWT_EXPIRES_IN |-> e,
           APPLE_JWT_ALGORITHM |-> a]) :
      k \in {Absent, Str(sEK)},
      t \in {Absent, Str(sET)},
      p \in {Absent, Str(sRawKey)},
      pp \in {Absent, Str(sEnvPem)},
      e \in {Absent, Str(s99), Str(sAbc)},
      a \in {Absent, Str(sES512)} }
  \cup {[APPLE_JWT_ALGORITHM |-> Str(sHS256)],
        [APPLE_PRIVATE_KEY |-> Str(sEmpty), APPLE_PRIVATE_KEY_PATH |-> Str(sEnvPem)],
        [APPLE_PRIVATE_KEY |-> Str(sInlineKeySlash)],
        [APPLE_JWT_EXPIRES_IN |-> Str(s12abc)],
        [APPLE_JWT_EXPIRES_IN |-> Str(s0)],
        [APPLE_JWT_EXPIRES_IN |-> Str(sNeg5)],
        [APPLE_JWT_EXPIRES_IN |-> Str(sEmpty)]}
FullEnviron ==
  [APPLE_KEY_ID |-> Str(sEK), APPLE_TEAM_ID |-> Str(sET),
   APPLE_PRIVATE_KEY |-> Str(sRawKey), APPLE_JWT_EXPIRES_IN |-> Str(s99)]

\* the file systems that matter to a command line and an environment: the
\* key file named by -p and the one named by APPLE_PRIVATE_KEY_PATH
CliFileSystems(a, e) ==
  {f \in FileSystems :
     /\ "APPLE_PRIVATE_KEY_PATH" \notin DOMAIN e => f[Resolve(sEnvPem)] = "missing"
     /\ (\A i \in 1..Len(a) : a[i] # sKeyPem) => f[Resolve(sKeyPem)] = "missing"}

\* what the user may type at the prompts
IdAnswers == {sEmpty, sBlank, sShort, sKeyId10}
PrivateKeyAnswers ==
  {sEmpty, sRawKey, sKeyPem, <<" ">> \o sKeyPem, sKeyP8, sInlineKey, sInlineKeySlash}
ExpiresInAnswers == {sEmpty, sAbc, s0, s30, s400, s12abc}
AlgorithmChoices == {sES256, sES384, sES512}
OutputAnswers == {sEmpty, sOut}

(***************************************************************************)
(* The state of one run: a process started from the command line, or one   *)
(* call of the library                                                     *)
(***************************************************************************)
VARIABLES
  entry,       \* the entry point: "cli", "generateAppleJWT", "generate",
               \* "resolveConfig" or "loadConfig"
  args,        \* process.argv.slice(2)
  environ,     \* process.env
  fs,          \* the state of each key file
  input,       \* the arguments of the library call
  pc,          \* where the run is
  options,     \* CLI.options
  config,      \* the config passed to generateAppleJWT
  outputPath,  \* the outputPath passed to generateAndOutput
  genConfig,   \* AppleJWTGenerator.config
  keyMaterial, \* what getPrivateKey returned
  trace,       \* the calls made so far, in order
  signCall,    \* the arguments of the call of jwt.sign
  result,      \* what generateAppleJWT / generate gave
  resolved,    \* what resolveConfig / loadConfig gave, finalConfig in the CLI
  stdout,      \* the lines of console.log
  stderr,      \* the lines of console.error
  outFile,     \* the file written by writeFileSync
  exitCode     \* the exit status of the process, Null while it runs

inputs == <<entry, args, environ, fs, input>>
console == <<stdout, stderr, outFile, exitCode>>
generation == <<genConfig, keyMaterial, trace, signCall, result>>
vars == <<entry, args, environ, fs, input, pc, options, config, outputPath,
          genConfig, keyMaterial, trace, signCall, result, resolved,
          stdout, stderr, outFile, exitCode>>

NoResult == <<"none">>

InitRest ==
  /\ pc = "start"
  /\ options = EmptyObject
  /\ config = EmptyObject
  /\ outputPath = Undefined
  /\ genConfig = EmptyObject
  /\ keyMaterial = Undefined
  /\ trace = <<>>
  /\ signCall = Null
  /\ result = NoResult
  /\ resolved = NoResult
  /\ stdout = <<>>
  /\ stderr = <<>>
  /\ outFile = Null
  /\ exitCode = Null

Init ==
  /\ \/ /\ entry = "cli"
        /\ args \in CompleteArgLists
        /\ environ \in Environs
        /\ fs \in CliFileSystems(args, environ)
        /\ input = Null
     \/ /\ entry = "cli"
        /\ args \in OtherArgLists
        /\ environ \in {EmptyObject, FullEnviron}
        /\ fs \in ApiFileSystems([privateKey |-> Str(sKeyPem)])
        /\ input = Null
     \/ /\ entry \in {"generateAppleJWT", "generate"}
        /\ args = <<>>
        /\ environ = EmptyObject
        /\ input \in {Obj(c) : c \in ApiConfigs}
        /\ fs \in ApiFileSystems(input[2])
     \/ /\ entry = "resolveConfig"
        /\ args = <<>>
        /\ environ = EmptyObject
        /\ input \in {Obj([cliOptions |-> c, configFile |-> cf]) :
                        c \in Fragments, cf \in ConfigFiles}
        /\ fs \in ApiFileSystems([privateKey |-> Str(sKeyPem)])
     \/ /\ entry = "loadConfig"
        /\ args = <<>>
        /\ environ \in Environs
        /\ fs \in CliFileSystems(<<>>, environ)
        /\ input = Null
  /\ InitRest

(***************************************************************************)
(* cli.ts: the CLI                                                         *)
(***************************************************************************)
HelpText == <<Lit("Apple JWT Generator USAGE: ... OPTIONS: ... EXAMPLES: ...")>>
VersionText == <<Lit("1.0.0")>>

\* main(): new CLI(process.argv), which parses the arguments and exits on an
\* unknown option, then run(), which chooses the mode
Run ==
  /\ entry = "cli"
  /\ pc = "start"
  /\ LET parsed == ParseArguments(args, 1, EmptyObject)
         opts == parsed.options
     IN IF parsed.unknown # Undefined
        THEN /\ stderr' = Append(stderr, <<Lit("Unknown option: "), parsed.unknown>>)
             /\ exitCode' = Num(1)
             /\ pc' = "exit"
             /\ UNCHANGED <<options, stdout>>
        ELSE /\ options' = opts
             /\ stderr' = stderr
             /\ IF Truthy(Get(opts, "help"))
                THEN /\ stdout' = Append(stdout, HelpText)
                     /\ exitCode' = Num(0)
                     /\ pc' = "exit"
                ELSE IF Truthy(Get(opts, "version"))
                THEN /\ stdout' = Append(stdout, VersionText)
                     /\ exitCode' = Num(0)
                     /\ pc' = "exit"
                ELSE /\ pc' = IF Len(args) = 0 \/ ~HasRequiredOptions(opts)
                              THEN "runInteractive" ELSE "runCommandLine"
                     /\ UNCHANGED <<stdout, exitCode>>
  /\ UNCHANGED <<inputs, config, outputPath, generation, resolved, outFile>>

\* runCommandLine()
RunCommandLine ==
  /\ pc = "runCommandLine"
  /\ LET finalConfig == FinalConfig(options, environ, fs)
     IN /\ resolved' = Return(finalConfig)
        /\ IF \/ ~Truthy(Get(finalConfig, "keyId"))
              \/ ~Truthy(Get(finalConfig, "teamId"))
              \/ ~Truthy(Get(finalConfig, "privateKey"))
           THEN /\ stderr' = stderr \o
                     << <<Lit("Error: Missing required parameters. Use --help for usage information.")>>,
                        <<Lit("Required: --key-id, --team-id, --private-key")>> >>
                /\ exitCode' = Num(1)
                /\ pc' = "exit"
                /\ UNCHANGED <<config, outputPath>>
           ELSE /\ config' = finalConfig
                /\ outputPath' = Get(options, "output")
                /\ pc' = "generateAndOutput"
                /\ UNCHANGED <<stderr, exitCode>>
  /\ UNCHANGED <<inputs, options, generation, stdout, outFile>>

\* confirmGeneration(config): the lines of the summary
Summary(c) ==
  << <<Lit("Apple JWT Generator - Interactive Mode\n")>>,
     <<Lit("\nConfiguration Summary:")>>,
     <<Lit("   Key ID: "), c.keyId>>,
     <<Lit("   Team ID: "), c.teamId>>,
     <<Lit("   Private Key: "),
       IF Includes(Chars(c.privateKey), "/") THEN Lit("File path")
       ELSE Lit("Inline content")>>,
     <<Lit("   Expires In: "), c.expiresIn, Lit(" days")>>,
     <<Lit("   Algorithm: "), c.algorithm>> >>

\* runInteractive(): runInteractiveMode() asks every prompt until its
\* validator accepts the answer, then asks for confirmation
RunInteractive ==
  /\ pc = "runInteractive"
  /\ \E keyId \in IdAnswers, teamId \in {sShort, sTeamId10},
        privateKey \in PrivateKeyAnswers, expiresInStr \in ExpiresInAnswers,
        algorithm \in AlgorithmChoices, outputAnswer \in {Undefined} \cup {Str(o) : o \in OutputAnswers},
        confirmed \in BOOLEAN :
       /\ IdAccepted(keyId)
       /\ IdAccepted(teamId)
       /\ PrivateKeyAccepted(privateKey, fs)
       /\ ExpiresInAccepted(expiresInStr)
       /\ outputAnswer # Undefined => OutputAccepted(Chars(outputAnswer))
       /\ IF confirmed
          THEN /\ config' = CollectAllInputs(keyId, teamId, privateKey,
                                             expiresInStr, algorithm)
               /\ outputPath' = outputAnswer
               /\ pc' = "generateAndOutput"
               /\ stdout' = stdout \o
                    Summary(CollectAllInputs(keyId, teamId, privateKey,
                                             expiresInStr, algorithm))
               /\ UNCHANGED exitCode
          ELSE /\ stdout' = stdout \o
                    Summary(CollectAllInputs(keyId, teamId, privateKey,
                                             expiresInStr, algorithm))
                    \o << <<Lit("JWT generation cancelled")>> >>
               /\ exitCode' = Num(0)
               /\ pc' = "exit"
               /\ UNCHANGED <<config, outputPath>>
  /\ UNCHANGED <<inputs, options, generation, resolved, stderr, outFile>>

\* generateAndOutput(config, outputPath), up to the call of generateAppleJWT
GenerateAndOutput ==
  /\ pc = "generateAndOutput"
  /\ stdout' = Append(stdout, <<Lit("Generating Apple JWT...")>>)
  /\ pc' = "generateAppleJWT"
  /\ UNCHANGED <<inputs, options, config, outputPath, generation, resolved,
                 stderr, outFile, exitCode>>

(***************************************************************************)
(* The calls of the library                                                *)
(***************************************************************************)
\* a caller calls generateAppleJWT(config)
CallGenerateAppleJWT ==
  /\ entry = "generateAppleJWT"
  /\ pc = "start"
  /\ config' = input[2]
  /\ pc' = "generateAppleJWT"
  /\ UNCHANGED <<inputs, options, outputPath, generation, resolved, console>>

\* a caller calls new AppleJWTGenerator(config).generate()
CallGenerate ==
  /\ entry = "generate"
  /\ pc = "start"
  /\ config' = input[2]
  /\ genConfig' = Constructor(input[2])
  /\ pc' = "getPrivateKey"
  /\ UNCHANGED <<inputs, options, outputPath, keyMaterial, trace, signCall,
                 result, resolved, console>>

\* a caller calls new ConfigManager().resolveConfig(cliOptions, configFile)
CallResolveConfig ==
  /\ entry = "resolveConfig"
  /\ pc = "start"
  /\ resolved' = ResolveConfig(input[2].cliOptions, input[2].configFile, fs)
  /\ pc' = "returned"
  /\ UNCHANGED <<inputs, options, config, outputPath, generation, console>>

\* a caller calls loadConfig()
CallLoadConfig ==
  /\ entry = "loadConfig"
  /\ pc = "start"
  /\ resolved' = BuildFinalConfig(environ, fs)
  /\ pc' = "returned"
  /\ UNCHANGED <<inputs, options, config, outputPath, generation, console>>

(***************************************************************************)
(* generator.ts: generateAppleJWT and AppleJWTGenerator.generate, one      *)
(* action for each call of a collaborator                                  *)
(***************************************************************************)
\* where the run goes when generateAppleJWT / generate has returned or thrown
AfterGeneration == IF entry = "cli" THEN "output" ELSE "returned"

\* the catch of generate(): every error caught is an Error
Wrapped(e) == Error(<<Lit("JWT generation failed: ")>> \o e.message)

\* generateAppleJWT(config): validateConfig, then the constructor
GenerateAppleJWTNoStop ==
  /\ pc = "generateAppleJWT"
  /\ trace' = Append(trace, "validateConfig")
  /\ result' = IF Threw(ValidateConfig(config)) THEN ValidateConfig(config) ELSE result
  /\ genConfig' = Constructor(config)
  /\ pc' = "getPrivateKey"
  /\ UNCHANGED <<inputs, options, config, outputPath, keyMaterial, signCall,
                 resolved, console>>
GenerateAppleJWT ==
  /\ pc = "generateAppleJWT"
  /\ trace' = Append(trace, "validateConfig")
  /\ IF Threw(ValidateConfig(config))
     THEN /\ result' = ValidateConfig(config)
          /\ pc' = AfterGeneration
          /\ UNCHANGED genConfig
     ELSE /\ genConfig' = Constructor(config)
          /\ pc' = "getPrivateKey"
          /\ UNCHANGED result
  /\ UNCHANGED <<inputs, options, config, outputPath, keyMaterial, signCall,
                 resolved, console>>

\* generate(): getPrivateKey() up to readFileSync
GetPrivateKeyNoCheck ==
  /\ pc = "getPrivateKey"
  /\ LET privateKey == Get(genConfig, "privateKey")
     IN IF ~IsStr(privateKey)
        THEN /\ result' = Throw(Wrapped(TypeError(
                  <<Lit("Cannot read properties of undefined (reading 'includes')")>>)))
             /\ pc' = AfterGeneration
             /\ UNCHANGED <<keyMaterial, trace>>
        ELSE IF IsFilePath(Chars(privateKey))
        THEN /\ pc' = "readFileSync"
             /\ UNCHANGED <<keyMaterial, trace, result>>
        ELSE /\ keyMaterial' = privateKey
             /\ pc' = "sign"
             /\ UNCHANGED <<trace, result>>
  /\ UNCHANGED <<inputs, options, config, outputPath, genConfig, signCall,
                 resolved, console>>
GetPrivateKey ==
  /\ pc = "getPrivateKey"
  /\ LET privateKey == Get(genConfig, "privateKey")
     IN IF ~IsStr(privateKey)
        THEN /\ result' = Throw(Wrapped(TypeError(
                  <<Lit("Cannot read properties of undefined (reading 'includes')")>>)))
             /\ pc' = AfterGeneration
             /\ UNCHANGED <<keyMaterial, trace>>
        ELSE IF IsFilePath(Chars(privateKey))
        THEN /\ trace' = Append(trace, "existsSync")
             /\ IF ~ExistsSync(fs, Chars(privateKey))
                THEN /\ result' = Throw(Wrapped(Error(
                          <<Lit("Private key file not found: "), privateKey>>)))
                     /\ pc' = AfterGeneration
                ELSE /\ pc' = "readFileSync"
                     /\ UNCHANGED result
             /\ UNCHANGED keyMaterial
        ELSE /\ keyMaterial' = privateKey
             /\ pc' = "sign"
             /\ UNCHANGED <<trace, result>>
  /\ UNCHANGED <<inputs, options, config, outputPath, genConfig, signCall,
                 resolved, console>>

\* generate(): readFileSync in getPrivateKey()
ReadKeyFile ==
  /\ pc = "readFileSync"
  /\ trace' = Append(trace, "readFileSync")
  /\ LET read == ReadFileSync(fs, Chars(genConfig["privateKey"]))
     IN IF Returned(read)
        THEN /\ keyMaterial' = read[2]
             /\ pc' = "sign"
             /\ UNCHANGED result
        ELSE /\ result' = Throw(Wrapped(Error(
                    <<Lit("Failed to read private key file: ")>>
                    \o ErrorToString(read[2]))))
             /\ pc' = AfterGeneration
             /\ UNCHANGED keyMaterial
  /\ UNCHANGED <<inputs, options, config, outputPath, genConfig, signCall,
                 resolved, console>>

\* generate(): createPayload(), createHeader() and jwt.sign, which returns a
\* token or throws
Sign ==
  /\ pc = "sign"
  /\ \E nowMs \in NowMsValues, signed \in BOOLEAN :
       LET call == [payload |-> CreatePayload(genConfig, nowMs),
                    key |-> keyMaterial,
                    options |-> [algorithm |-> Get(genConfig, "algorithm"),
                                 header |-> CreateHeader(genConfig)]]
       IN /\ signCall' = Obj(call)
          /\ result' = IF signed
                       THEN Return(<<"jwt", call.options.header, call.payload>>)
                       ELSE Throw(Wrapped(Error(<<Lit("Invalid private key")>>)))
  /\ trace' = Append(trace, "jwt.sign")
  /\ pc' = AfterGeneration
  /\ UNCHANGED <<inputs, options, config, outputPath, genConfig, keyMaterial,
                 resolved, console>>

\* generateAndOutput(config, outputPath) after generateAppleJWT: the token
\* goes to the file or to the console, an error to the catch
OutputBeforeCheck ==
  /\ pc = "output"
  /\ pc' = "exit"
  /\ outFile' = IF Truthy(outputPath)
                THEN Obj([path |-> Str(Resolve(Chars(outputPath))),
                          content |-> IF Threw(result) THEN Undefined
                                      ELSE result[2]])
                ELSE outFile
  /\ stdout' = IF Truthy(outputPath) THEN stdout
               ELSE Append(stdout, <<IF Threw(result) THEN Undefined
                                     ELSE result[2]>>)
  /\ exitCode' = IF Threw(result) THEN Num(1) ELSE Num(0)
  /\ UNCHANGED <<inputs, options, config, outputPath, generation, resolved,
                 stderr>>
Output ==
  /\ pc = "output"
  /\ pc' = "exit"
  /\ \E written \in BOOLEAN :
       IF Threw(result) \/ (Truthy(outputPath) /\ ~written)
       THEN /\ stderr' = Append(stderr,
                 <<Lit("Error generating JWT:"), Lit(" ")>> \o
                 (IF Threw(result) THEN result[2].message
                  ELSE <<Lit("EACCES: permission denied, open")>>))
            /\ exitCode' = Num(1)
            /\ UNCHANGED <<stdout, outFile>>
       ELSE IF Truthy(outputPath)
       THEN /\ outFile' = Obj([path |-> Str(Resolve(Chars(outputPath))),
                               content |-> result[2]])
            /\ stdout' = Append(stdout, <<Lit("JWT saved to: "),
                                          Str(Resolve(Chars(outputPath)))>>)
            /\ exitCode' = Num(0)
            /\ UNCHANGED stderr
       ELSE /\ stdout' = stdout \o << <<Lit("JWT generated successfully:\n")>>,
                                      <<result[2]>> >>
            /\ exitCode' = Num(0)
            /\ UNCHANGED <<stderr, outFile>>
  /\ UNCHANGED <<inputs, options, config, outputPath, generation, resolved>>

Next ==
  \/ Run
  \/ RunCommandLine
  \/ RunInteractive
  \/ GenerateAndOutput
  \/ CallGenerateAppleJWT
  \/ CallGenerate
  \/ CallResolveConfig
  \/ CallLoadConfig
  \/ GenerateAppleJWT
  \/ GetPrivateKey
  \/ ReadKeyFile
  \/ Sign
  \/ Output

Spec == Init /\ [][Next]_vars

(***************************************************************************)
(* Properties                                                              *)
(***************************************************************************)
ConfigFields == {"keyId", "teamId", "privateKey", "expiresIn", "algorithm"}

\* the environment fragment of the run
EnvFragment == ValidateEnvironmentVariables(environ, fs)

\* runCommandLine has built finalConfig
CommandLineResolved == entry = "cli" /\ Returned(resolved)

\* C1: in the command-line flow, a field set both by a CLI flag and by its
\* environment variable has the CLI value in the final configuration
C1_CliOverridesEnv ==
  CommandLineResolved =>
    \A f \in ConfigFields :
      (Get(options, f) # Undefined /\ f \in DOMAIN EnvFragment)
        => Get(resolved[2], f) = options[f]

\* the value of field f in the first of the fragments srcs that has the key
\* f, undefined when none has it
FirstSource(srcs, f) ==
  IF \E i \in 1..Len(srcs) : f \in DOMAIN srcs[i]
  THEN srcs[CHOOSE i \in 1..Len(srcs) :
              /\ f \in DOMAIN srcs[i]
              /\ \A j \in 1..(i - 1) : f \notin DOMAIN srcs[j]][f]
  ELSE Undefined

\* the fields of a run are merged one by one: in the command-line flow a
\* field that the CLI fragment does not have comes from the environment
\* fragment, else from the defaults, and a field that the environment fragment
\* does not have comes from the CLI fragment, else from the defaults
MergedPerFieldCli ==
  CommandLineResolved =>
    \A f \in ConfigFields :
      /\ f \notin DOMAIN options =>
           Get(resolved[2], f) = FirstSource(<<EnvFragment, Defaults>>, f)
      /\ f \notin DOMAIN EnvFragment =>
           Get(resolved[2], f) = FirstSource(<<options, Defaults>>, f)
      /\ (f \in DOMAIN options /\ f \in DOMAIN EnvFragment) =>
           Get(resolved[2], f) \in {options[f], EnvFragment[f]}

\* loadConfig(): the environment fragment over the defaults
MergedPerFieldLoad ==
  (entry = "loadConfig" /\ Returned(resolved)) =>
    \A f \in ConfigFields :
      Get(resolved[2], f) = FirstSource(<<EnvFragment, Defaults>>, f)

\* resolveConfig(cliOptions, null): the fragment over the defaults
MergedPerFieldResolve ==
  (entry = "resolveConfig" /\ Returned(resolved) /\ input[2].configFile = Null) =>
    \A f \in ConfigFields :
      Get(resolved[2], f) = FirstSource(<<input[2].cliOptions, Defaults>>, f)

ValidateDone == trace # <<>> /\ trace[1] = "validateConfig"

\* the messages of validateConfig, in the order of its checks
ValidationMessages ==
  << <<Lit("Apple Key ID is required")>>,
     <<Lit("Apple Team ID is required")>>,
     <<Lit("Private key is required")>>,
     <<Lit("Expiration days must be between 1 and 365")>> >>

\* the result is the error of a check of validateConfig
IsValidationError(r) ==
  Threw(r) /\ \E i \in 1..4 : r[2].message = ValidationMessages[i]

MissingOrEmpty(v) == v \in {Undefined, Str(<<>>)}

\* the i-th check of validateConfig fails on c: the field is missing or
\* empty, or expiresIn is a number below 1 or above 365
CheckFails(i, c) ==
  CASE i = 1 -> MissingOrEmpty(Get(c, "keyId"))
    [] i = 2 -> MissingOrEmpty(Get(c, "teamId"))
    [] i = 3 -> MissingOrEmpty(Get(c, "privateKey"))
    [] i = 4 -> /\ IsNum(Get(c, "expiresIn"))
                /\ (Get(c, "expiresIn")[2] < 1 \/ Get(c, "expiresIn")[2] > 365)

FailingChecks(c) == {i \in 1..4 : CheckFails(i, c)}
FirstFailing(c) == CHOOSE i \in FailingChecks(c) : \A j \in FailingChecks(c) : i <= j

InRange(v) == IsNum(v) /\ v[2] >= 1 /\ v[2] <= 365

RequiredPresent(c) ==
  /\ ~MissingOrEmpty(Get(c, "keyId"))
  /\ ~MissingOrEmpty(Get(c, "teamId"))
  /\ ~MissingOrEmpty(Get(c, "privateKey"))

\* C4: with keyId, teamId and privateKey present, validateConfig raises
\* 'Expiration days must be between 1 and 365' for every expiresIn outside
\* [1, 365] and raises nothing for every expiresIn inside it or unset
C4_RangeChecked ==
  (ValidateDone /\ RequiredPresent(config)) =>
    IF InRange(Get(config, "expiresIn")) \/ Get(config, "expiresIn") = Undefined
    THEN ~IsValidationError(result)
    ELSE result = Throw(Error(ValidationMessages[4]))

\* the stages of a generation, in their order
StageOrder == <<"validateConfig", "existsSync", "readFileSync", "jwt.sign">>
Stage(call) == CHOOSE i \in 1..4 : StageOrder[i] = call
Called(call) == \E i \in 1..Len(trace) : trace[i] = call

\* the generation-stage prefix of the errors thrown by generate()
IsWrapped(r) ==
  Threw(r) /\ r[2].message # <<>> /\ r[2].message[1] = Lit("JWT generation failed: ")

\* getPrivateKey() has thrown: the key file is missing or unreadable, or the
\* key is no string
KeyResolutionFailed(r) ==
  /\ IsWrapped(r)
  /\ Len(r[2].message) >= 2
  /\ r[2].message[2] \in
       { Lit("Private key file not found: "),
         Lit("Failed to read private key file: "),
         Lit("Cannot read properties of undefined (reading 'includes')") }

\* C5: the stages run in the order validate, key resolution (existence check,
\* then read), signing; when validation fails there is no existence check, no
\* read and no call of the signer; when key resolution fails the signer is
\* not called
C5_StagesInOrder ==
  /\ \A i, j \in 1..Len(trace) : i < j => Stage(trace[i]) < Stage(trace[j])
  /\ (entry \in {"cli", "generateAppleJWT"} /\ trace # <<>>) => ValidateDone
  /\ IsValidationError(result) => (trace = <<"validateConfig">> /\ signCall = Null)
  /\ KeyResolutionFailed(result) => (~Called("jwt.sign") /\ signCall = Null)
  /\ signCall # Null <=> Called("jwt.sign")

\* validation has failed on a configuration whose key is a file reference
C5_Witness ==
  /\ IsValidationError(result)
  /\ IsStr(Get(config, "privateKey"))
  /\ IsFilePath(Chars(Get(config, "privateKey")))
  /\ pc \in {"returned", "exit"}
\* in a run from the command line the key file is found missing after a
\* validation that passed, and the run is over
C5_WitnessKeyMissing ==
  /\ entry = "cli"
  /\ pc = "exit"
  /\ trace = <<"validateConfig", "existsSync">>
  /\ KeyResolutionFailed(result)

\* the token is among the lines printed
TokenPrinted ==
  \E i \in 1..Len(stdout) : \E j \in 1..Len(stdout[i]) : stdout[i][j][1] = "jwt"

\* C6: a token reaches the console or the output file only when
\* generateAppleJWT has returned it; when a stage of the generation fails no
\* file is written and no token is printed
C6_NoPartialOutput ==
  /\ (outFile # Null \/ TokenPrinted) =>
       /\ Returned(result)
       /\ result[2][1] = "jwt"
       /\ Called("jwt.sign")
       /\ pc = "exit"
  /\ outFile # Null => outFile[2].content = result[2]
  /\ TokenPrinted => stdout[Len(stdout)] = <<result[2]>>
  /\ Threw(result) => (outFile = Null /\ ~TokenPrinted)

\* a run that failed in a stage although an output file was asked for, and
\* has ended
C6_Witness ==
  /\ pc = "exit"
  /\ Threw(result)
  /\ Truthy(outputPath)
  /\ outFile = Null
  /\ exitCode = Num(1)
\* a run that wrote the token to the file
C6_WitnessWritten ==
  /\ pc = "exit"
  /\ outFile # Null
  /\ Returned(result)

\* the call of jwt.sign
Payload == signCall[2].payload
Header == signCall[2].options.header

\* what the configuration sets a field to, the default when it leaves the
\* field unset (the key is missing or its value is undefined)
Configured(c, f) == IF Get(c, f) = Undefined THEN Defaults[f] ELSE c[f]

\* a configuration as the data model has it: the three required fields are
\* non-empty strings, expiresIn is unset or an integer of [1, 365]
ValidConfiguration(c) ==
  /\ RequiredPresent(c)
  /\ (Get(c, "expiresIn") = Undefined \/ InRange(Get(c, "expiresIn")))

\* C7: for every valid configuration the payload passed to the signer has
\* exactly the fields iss, iat and exp, iss is teamId, iat is the time in
\* whole seconds, and exp - iat is expiresIn * 86400, expiresIn being the
\* configured value, or 180 when the configuration leaves it unset
C7_PayloadOfConfig ==
  (signCall # Null /\ ValidConfiguration(config)) =>
    /\ DOMAIN Payload = {"iss", "iat", "exp"}
    /\ Payload.iss = config["teamId"]
    /\ IsNum(Payload.iat)
    /\ \E ms \in NowMsValues :
         /\ Payload.iat[2] * 1000 <= ms
         /\ ms < (Payload.iat[2] + 1) * 1000
    /\ IsNum(Payload.exp)
    /\ Payload.exp[2] - Payload.iat[2] = Configured(config, "expiresIn")[2] * 86400

\* C8: every payload passed to the signer, through any entry point, has
\* integers iat and exp with exp > iat
C8_ExpAfterIat ==
  signCall # Null =>
    /\ IsNum(Payload.iat)
    /\ IsNum(Payload.exp)
    /\ Payload.exp[2] > Payload.iat[2]

\* C8 for the runs started from the command line
C8_ExpAfterIatCli == entry = "cli" => C8_ExpAfterIat

\* C9: the header passed to the signer has exactly the fields alg and kid,
\* kid is keyId, alg is the configured algorithm, or ES256 when the
\* configuration leaves it unset, and the algorithm option is the header's alg
C9_HeaderOfConfig ==
  signCall # Null =>
    /\ DOMAIN Header = {"alg", "kid"}
    /\ Header.kid = Get(config, "keyId")
    /\ Header.alg = Configured(config, "algorithm")
    /\ signCall[2].options.algorithm = Header.alg

\* C9 for the runs started from the command line
C9_HeaderOfConfigCli == entry = "cli" => C9_HeaderOfConfig

\* the privateKey of the generator and the state of the file it names
PrivateKey == Get(genConfig, "privateKey")
KeyFileState ==
  IF Resolve(Chars(PrivateKey)) \in DOMAIN fs
  THEN fs[Resolve(Chars(PrivateKey))] ELSE "missing"

\* s looks like a file reference: it has a path separator, or the extension
\* of a key file
LooksLikeFileReference(s) ==
  \/ \E i \in 1..Len(s) : s[i] \in {"/", "\\"}
  \/ (Len(s) >= 4 /\ SubSeq(s, Len(s) - 3, Len(s)) = <<".", "p", "e", "m">>)
  \/ (Len(s) >= 3 /\ SubSeq(s, Len(s) - 2, Len(s)) = <<".", "p", "8">>)

\* the generator holds a key that is a file reference
KeyIsReference ==
  /\ DOMAIN genConfig # {}
  /\ IsStr(PrivateKey)
  /\ LooksLikeFileReference(Chars(PrivateKey))

\* getPrivateKey() is over
KeyResolutionOver == pc \notin {"getPrivateKey", "readFileSync"}

KeyNotFoundError ==
  Throw(Error(<<Lit("JWT generation failed: "),
                Lit("Private key file not found: "), PrivateKey>>))
KeyReadError ==
  Throw(Error(<<Lit("JWT generation failed: "),
                Lit("Failed to read private key file: ")>>
              \o ErrorToString(ReadFileSync(fs, Chars(PrivateKey))[2])))

\* C10: for a privateKey that looks like a file reference, a missing file
\* gives the key-not-found error that names the path, a file that exists and
\* cannot be read gives the key-read error that carries the I/O reason, a
\* readable file gives its content, and the path is never the key material
C10_KeyResolution ==
  KeyIsReference =>
    /\ keyMaterial # PrivateKey
    /\ signCall # Null => signCall[2].key # PrivateKey
    /\ KeyResolutionOver =>
         CASE KeyFileState = "missing" ->
                result = KeyNotFoundError /\ keyMaterial = Undefined
           [] KeyFileState = "unreadable" ->
                /\ result = KeyReadError
                /\ result # KeyNotFoundError
                /\ keyMaterial = Undefined
           [] KeyFileState = "readable" ->
                /\ keyMaterial = Str(FileContent(Chars(PrivateKey)))
                /\ signCall # Null => signCall[2].key = keyMaterial
                /\ ~KeyResolutionFailed(result)

\* the key file of a reference is missing and the error names the path
C10_Witness ==
  /\ KeyIsReference
  /\ KeyResolutionOver
  /\ KeyFileState = "missing"
  /\ result[2].message[3] = Str(sKeyPem)
\* the key file exists and cannot be read
C10_WitnessUnreadable ==
  /\ KeyIsReference
  /\ KeyResolutionOver
  /\ KeyFileState = "unreadable"
  /\ result[2].message[2] = Lit("Failed to read private key file: ")
\* the key file is read
C10_WitnessRead ==
  /\ KeyIsReference
  /\ KeyResolutionOver
  /\ KeyFileState = "readable"
  /\ Returned(result)

\* s is raw key material: inline content with the PEM BEGIN and END markers
IsRawKeyMaterial(s) == IncludesSeq(s, sBegin) /\ IncludesSeq(s, sEnd)

\* the generator holds a key that is inline key content
KeyIsInline ==
  /\ DOMAIN genConfig # {}
  /\ IsStr(PrivateKey)
  /\ IsRawKeyMaterial(Chars(PrivateKey))

\* C11: a privateKey that is raw key material (inline content with the PEM
\* BEGIN and END markers) is not taken for a file reference: key resolution
\* makes no existence check and no read, and returns the key verbatim
C11_InlineKeyVerbatim ==
  KeyIsInline =>
    /\ ~Called("existsSync")
    /\ ~Called("readFileSync")
    /\ KeyResolutionOver => keyMaterial = PrivateKey

\* validateEnvironmentVariables() has run: in loadConfig(), or in
\* runCommandLine()
EnvExtracted == (entry = "loadConfig" /\ pc = "returned") \/ CommandLineResolved

\* an environment variable is set to a non-empty string
IsSet(name) == name \in DOMAIN environ /\ environ[name] # Str(<<>>)

\* the file that APPLE_PRIVATE_KEY_PATH names, resolved against the working
\* directory, and whether it exists
EnvKeyPath ==
  LET p == Chars(environ["APPLE_PRIVATE_KEY_PATH"])
  IN IF p[1] = "/" THEN p
     ELSE Cwd \o <<"/">> \o (IF SubSeq(p, 1, 2) = <<".", "/">>
                             THEN SubSeq(p, 3, Len(p)) ELSE p)
EnvKeyFileExists == EnvKeyPath \in DOMAIN fs /\ fs[EnvKeyPath] # "missing"

\* C12: the environment fragment's privateKey is APPLE_PRIVATE_KEY when that
\* is set and non-empty, whatever APPLE_PRIVATE_KEY_PATH is; otherwise, when
\* APPLE_PRIVATE_KEY_PATH is set, it is the path resolved against the working
\* directory if that file exists, and the field is absent, with no error, if
\* it does not; loadConfig() gives the fragment's privateKey
C12_EnvPrivateKey ==
  EnvExtracted =>
    /\ IF IsSet("APPLE_PRIVATE_KEY")
       THEN /\ "privateKey" \in DOMAIN EnvFragment
            /\ EnvFragment["privateKey"] = environ["APPLE_PRIVATE_KEY"]
       ELSE IF IsSet("APPLE_PRIVATE_KEY_PATH") /\ EnvKeyFileExists
       THEN /\ "privateKey" \in DOMAIN EnvFragment
            /\ EnvFragment["privateKey"] = Str(EnvKeyPath)
       ELSE "privateKey" \notin DOMAIN EnvFragment
    /\ Returned(resolved)
    /\ entry = "loadConfig" =>
         Get(resolved[2], "privateKey") = Get(EnvFragment, "privateKey")

\* both variables are set, the file of the path exists, and the direct
\* content is the key
C12_Witness ==
  /\ entry = "loadConfig"
  /\ pc = "returned"
  /\ IsSet("APPLE_PRIVATE_KEY")
  /\ IsSet("APPLE_PRIVATE_KEY_PATH")
  /\ EnvKeyFileExists
  /\ resolved[2]["privateKey"] = Str(sRawKey)
\* only the path is set and its file does not exist
C12_WitnessMissing ==
  /\ entry = "loadConfig"
  /\ pc = "returned"
  /\ ~IsSet("APPLE_PRIVATE_KEY")
  /\ IsSet("APPLE_PRIVATE_KEY_PATH")
  /\ ~EnvKeyFileExists
  /\ resolved[2]["privateKey"] = Undefined
\* only the path is set and its file exists
C12_WitnessPath ==
  /\ entry = "loadConfig"
  /\ pc = "returned"
  /\ ~IsSet("APPLE_PRIVATE_KEY")
  /\ IsSet("APPLE_PRIVATE_KEY_PATH")
  /\ resolved[2]["privateKey"] = Str(Cwd \o <<"/", "e", ".", "p", "e", "m">>)

\* s is an integer in decimal notation: an optional sign and digits only
Unsigned(s) == IF s # <<>> /\ s[1] \in {"-", "+"} THEN Tail(s) ELSE s
IsIntegerString(s) ==
  /\ Unsigned(s) # <<>>
  /\ \A i \in 1..Len(Unsigned(s)) : IsDigit(Unsigned(s)[i])
RECURSIVE DecimalValue(_)
DecimalValue(u) ==
  IF u = <<>> THEN 0
  ELSE 10 * DecimalValue(SubSeq(u, 1, Len(u) - 1)) + DigitVal(u[Len(u)])
IntegerOf(s) ==
  IF s[1] = "-" THEN 0 - DecimalValue(Unsigned(s)) ELSE DecimalValue(Unsigned(s))

\* C13: when APPLE_JWT_EXPIRES_IN is an integer string the environment
\* fragment's expiresIn is that integer; when it is set to anything that is
\* not a valid integer the fragment has no expiresIn field, no error is
\* raised, and the configuration of loadConfig() has the default 180
C13_EnvExpiresIn ==
  (EnvExtracted /\ IsSet("APPLE_JWT_EXPIRES_IN")) =>
    /\ Returned(resolved)
    /\ IF IsIntegerString(Chars(environ["APPLE_JWT_EXPIRES_IN"]))
       THEN /\ "expiresIn" \in DOMAIN EnvFragment
            /\ EnvFragment["expiresIn"] =
                 Num(IntegerOf(Chars(environ["APPLE_JWT_EXPIRES_IN"])))
       ELSE /\ "expiresIn" \notin DOMAIN EnvFragment
            /\ entry = "loadConfig" =>
                 Get(resolved[2], "expiresIn") = Num(DefaultExpiresIn)

\* C13 without the strings that start with an integer and go on with something
\* else, which parseInt reads as that integer
StartsWithInteger(s) == Unsigned(s) # <<>> /\ IsDigit(Unsigned(s)[1])
C13_EnvExpiresInNoDigits ==
  (IsSet("APPLE_JWT_EXPIRES_IN")
   /\ StartsWithInteger(Chars(environ["APPLE_JWT_EXPIRES_IN"]))
   /\ ~IsIntegerString(Chars(environ["APPLE_JWT_EXPIRES_IN"])))
  \/ C13_EnvExpiresIn

\* the configuration-resolution stage is over: resolveConfig, loadConfig or
\* the resolution of runCommandLine
ResolutionOver ==
  \/ (entry \in {"resolveConfig", "loadConfig"} /\ pc = "returned")
  \/ CommandLineResolved

\* C14: configuration resolution never raises an error: for every input of
\* resolveConfig and validateEnvironmentVariables, references to key files
\* that do not exist included, it returns a partial configuration, in which
\* the reference to a missing key file is an omitted privateKey
C14_ResolutionNeverRaises ==
  ResolutionOver =>
    /\ Returned(resolved)
    /\ (/\ entry = "resolveConfig"
        /\ ~Truthy(Get(input[2].cliOptions, "privateKey"))
        /\ input[2].configFile # Null
        /\ Truthy(Get(input[2].configFile[2], "privateKeyPath"))
        /\ fs[Resolve(Chars(input[2].configFile[2]["privateKeyPath"]))] = "missing")
       => ~Truthy(Get(resolved[2], "privateKey"))

\* the reasons of the failures of generate: a validation failure, the key
\* file not found, the key file unreadable, an error of jwt.sign, and the
\* TypeError of a privateKey that is no string
IsFailureReason(m) ==
  \/ \E k \in 1..4 : m = ValidationMessages[k]
  \/ m = <<Lit("Private key file not found: "), Get(config, "privateKey")>>
  \/ m = <<Lit("Failed to read private key file: "), Lit("Error"), Lit(": "),
           Lit("Permission denied")>>
  \/ m = <<Lit("Invalid private key")>>
  \/ m = <<Lit("Cannot read properties of undefined (reading 'includes')")>>

\* no stage is called twice
NoRetry ==
  \A i, j \in 1..Len(trace) : trace[i] = trace[j] => i = j

\* the boundary has reported the failure: the last line of console.error is
\* the message, the status is 1, no token is printed and no file written
Reported ==
  /\ stderr # <<>>
  /\ stderr[Len(stderr)] =
       <<Lit("Error generating JWT:"), Lit(" ")>> \o result[2].message
  /\ exitCode = Num(1)
  /\ outFile = Null
  /\ ~TokenPrinted

\* C15: every failure of the generation reaches its caller as one error whose
\* message is the prefix 'JWT generation failed: ' and then the underlying
\* reason, unchanged; the CLI reports it and exits with a non-zero status, and
\* nothing is retried
C15_FailuresWrapped ==
  Threw(result) =>
    /\ IsWrapped(result)
    /\ IsFailureReason(Tail(result[2].message))
    /\ NoRetry
    /\ (entry = "cli" /\ pc = "exit") => Reported

\* C15 for the failures of generate() itself, the validation failures of
\* generateAppleJWT aside
C15_FailuresWrappedAfterValidation ==
  (Threw(result) /\ ~IsValidationError(result)) => C15_FailuresWrapped
\* the validation failures of generateAppleJWT are reported, without the prefix
C15_ValidationFailuresReported ==
  (Threw(result) /\ IsValidationError(result)) =>
    /\ ~IsWrapped(result)
    /\ NoRetry
    /\ (entry = "cli" /\ pc = "exit") => Reported

\* the algorithms of the data model
Algorithms == {Str(sES256), Str(sES384), Str(sES512)}

\* environment extraction copies APPLE_JWT_ALGORITHM as it is
C16_EnvAlgorithmVerbatim ==
  (EnvExtracted /\ IsSet("APPLE_JWT_ALGORITHM")) =>
    /\ "algorithm" \in DOMAIN EnvFragment
    /\ EnvFragment["algorithm"] = environ["APPLE_JWT_ALGORITHM"]

\* C16: environment extraction copies APPLE_JWT_ALGORITHM verbatim, and the
\* generation validates the algorithm: for a configuration whose algorithm is
\* not ES256, ES384 or ES512 it fails with a validation error, so jwt.sign is
\* never called with an algorithm outside that set
C16_AlgorithmValidated ==
  /\ C16_EnvAlgorithmVerbatim
  /\ signCall # Null => signCall[2].options.algorithm \in Algorithms
  /\ (/\ entry \in {"cli", "generateAppleJWT"}
      /\ ValidateDone
      /\ pc # "generateAppleJWT"
      /\ Get(config, "algorithm") # Undefined
      /\ Get(config, "algorithm") \notin Algorithms)
     => (Threw(result) /\ ~IsWrapped(result) /\ signCall = Null)

\* the constructor of the CLI ended the process on an unknown option
ParseFailed == stderr # <<>> /\ stderr[1][1] = Lit("Unknown option: ")

\* run() has chosen the mode
ModeChosen == entry = "cli" /\ pc # "start" /\ ~ParseFailed

HelpGiven == \E i \in 1..Len(args) : args[i] \in {fH, fHelp}
VersionGiven == \E i \in 1..Len(args) : args[i] \in {fV, fVersion}

\* the run has shown the text and nothing else, and has done nothing else
OnlyShown(text) ==
  /\ pc = "exit"
  /\ stdout = <<text>>
  /\ stderr = <<>>
  /\ exitCode = Num(0)
  /\ resolved = NoResult
  /\ config = EmptyObject
  /\ trace = <<>>
  /\ signCall = Null
  /\ result = NoResult
  /\ outFile = Null

\* the path the run has taken
CommandLinePath == pc = "runCommandLine" \/ resolved # NoResult
InteractivePath ==
  \/ pc = "runInteractive"
  \/ (stdout # <<>> /\ stdout[1] = <<Lit("Apple JWT Generator - Interactive Mode\n")>>)

\* keyId, teamId and privateKey were all given a value by a flag
AllRequiredFlags ==
  \A f \in {"keyId", "teamId", "privateKey"} :
    f \in DOMAIN options /\ options[f] \notin {Undefined, Str(<<>>)}

C17_WitnessHelp ==
  /\ ModeChosen
  /\ HelpGiven
  /\ AllRequiredFlags
  /\ pc = "exit"
\* the command-line path
C17_WitnessCommandLine ==
  /\ ModeChosen
  /\ CommandLinePath
  /\ pc = "exit"
  /\ Returned(result)

\* the generation runs on the configuration built from the answers that the
\* validators of the prompts accepted
InteractiveGeneration ==
  /\ entry = "cli"
  /\ InteractivePath
  /\ pc \notin {"runInteractive", "generateAndOutput", "generateAppleJWT"}
  /\ config # EmptyObject

KeyFileNotFound(r) ==
  /\ Threw(r)
  /\ Len(r[2].message) >= 2
  /\ r[2].message[2] = Lit("Private key file not found: ")

\* C18: a configuration built from answers that the validators of the
\* interactive prompts accepted passes validateConfig, and, the file system
\* being the one the prompt saw, its key resolution does not fail with 'file
\* not found'
C18_AcceptedAnswersGenerate ==
  InteractiveGeneration =>
    /\ ValidateDone
    /\ ~IsValidationError(result)
    /\ ~KeyFileNotFound(result)

\* the first part of C18: validateConfig passes on the accepted answers
C18_AcceptedAnswersValid ==
  InteractiveGeneration => (ValidateDone /\ ~IsValidationError(result))

\* the configuration of the generation has inline key content
ConfigKeyIsInline ==
  /\ "privateKey" \in DOMAIN config
  /\ IsStr(config["privateKey"])
  /\ IsRawKeyMaterial(Chars(config["privateKey"]))

\* the message (a sequence of pieces) has the key content in it
ContainsKey(msg) ==
  \E i \in 1..Len(msg) :
    /\ msg[i][1] = "str"
    /\ IncludesSeq(msg[i][2], Chars(config["privateKey"]))

\* C19: for a configuration whose privateKey is inline key content, no error
\* message raised by the generation and no line printed by the CLI contains
\* the key content
C19_KeyNeverEmitted ==
  ConfigKeyIsInline =>
    /\ Threw(result) => ~ContainsKey(result[2].message)
    /\ \A i \in 1..Len(stdout) : ~ContainsKey(stdout[i])
    /\ \A i \in 1..Len(stderr) : ~ContainsKey(stderr[i])

\* C19 for the inline keys that isFilePath does not take for a file reference
C19_KeyNeverEmittedNoSeparator ==
  (ConfigKeyIsInline /\ LooksLikeFileReference(Chars(config["privateKey"])))
  \/ C19_KeyNeverEmitted

=============================================================================
